---- MODULE Spec2Model ----
(***************************************************************************)
(* Q16 fast reciprocal square root (LUT -> interpolation -> Newton) in its *)
(* two builds: the reference build (64-bit shift-add multiply, two Newton  *)
(* steps) and the optimal build (16x16->32 multiplies, one Newton step),   *)
(* driven by the harness loop of test_Fast_rsqrt.                          *)
(*                                                                         *)
(* TLC's integers are 32-bit signed, so a C unsigned value is a little-    *)
(* endian sequence of 16-bit limbs: uint32_t has two limbs, uint64_t four. *)
(* Every C operator is modelled at its own width, with the wrap-around and *)
(* the bits a shift drops.  Shift counts, table indices and loop counters  *)
(* (all below 64 in the code) are plain naturals.                          *)
(***************************************************************************)
EXTENDS Integers, Sequences, FiniteSets, TLC

(* ------------------------- fixed-width words --------------------------- *)

\* Op applied to the value of e, computed once: a C local that is assigned
\* once and read several times.
Let(e, Op(_)) == CHOOSE r \in {Op(v) : v \in {e}} : TRUE

LimbBase == 2^16

Limb(a, j) == IF j >= 1 /\ j <= Len(a) THEN a[j] ELSE 0

W32(hi, lo) == <<lo, hi>>

Small32(n) == <<n % LimbBase, n \div LimbBase>>

Zero32 == <<0, 0>>

Zero64 == <<0, 0, 0, 0>>

Ext64(a) == <<a[1], a[2], 0, 0>>

Trunc32(a) == <<a[1], a[2]>>

High32(a) == <<a[3], a[4]>>

IsZero(a) == \A j \in 1..Len(a) : a[j] = 0

RECURSIVE AddFrom(_, _, _, _)
AddFrom(a, b, j, c) ==
    IF j > Len(a) THEN <<c>>
    ELSE LET s == a[j] + b[j] + c
         IN  <<s % LimbBase>> \o AddFrom(a, b, j + 1, s \div LimbBase)

\* a + b at the width of a, wrapping; AddCarry is the bit that falls off.
AddW(a, b) == SubSeq(AddFrom(a, b, 1, 0), 1, Len(a))

AddCarry(a, b) == AddFrom(a, b, 1, 0)[Len(a) + 1]

RECURSIVE SubFrom(_, _, _, _)
SubFrom(a, b, j, c) ==
    IF j > Len(a) THEN <<c>>
    ELSE LET d == a[j] - b[j] - c
         IN  IF d < 0 THEN <<d + LimbBase>> \o SubFrom(a, b, j + 1, 1)
                      ELSE <<d>> \o SubFrom(a, b, j + 1, 0)

\* a - b at the width of a, wrapping; SubBorrow is 1 when b > a.
SubW(a, b) == SubSeq(SubFrom(a, b, 1, 0), 1, Len(a))

SubBorrow(a, b) == SubFrom(a, b, 1, 0)[Len(a) + 1]

ShlLimb(a, q, r, j) ==
    ((Limb(a, j - q) * 2^r) % LimbBase) + (Limb(a, j - q - 1) \div 2^(16 - r))

ShrLimb(a, q, r, j) ==
    (Limb(a, j + q) \div 2^r) + ((Limb(a, j + q + 1) % 2^r) * 2^(16 - r))

\* a << n and a >> n at the width of a (two or four limbs), 0 <= n < 16 * Len(a).
\* The result is built limb by limb as a tuple.
ShlW(a, n) ==
    LET q == n \div 16
        r == n % 16
    IN  IF Len(a) = 2
        THEN <<ShlLimb(a, q, r, 1), ShlLimb(a, q, r, 2)>>
        ELSE <<ShlLimb(a, q, r, 1), ShlLimb(a, q, r, 2),
               ShlLimb(a, q, r, 3), ShlLimb(a, q, r, 4)>>

ShrW(a, n) ==
    LET q == n \div 16
        r == n % 16
    IN  IF Len(a) = 2
        THEN <<ShrLimb(a, q, r, 1), ShrLimb(a, q, r, 2)>>
        ELSE <<ShrLimb(a, q, r, 1), ShrLimb(a, q, r, 2),
               ShrLimb(a, q, r, 3), ShrLimb(a, q, r, 4)>>

\* TRUE when a << n drops a set bit.
ShlLoses(a, n) == ShrW(ShlW(a, n), n) # a

RECURSIVE LessFrom(_, _, _)
LessFrom(a, b, j) ==
    IF j = 0 THEN FALSE
    ELSE IF a[j] # b[j] THEN a[j] < b[j]
    ELSE LessFrom(a, b, j - 1)

\* unsigned a < b and a <= b, same width
LtW(a, b) == LessFrom(a, b, Len(a))

LeW(a, b) == ~LtW(b, a)

(* --------------------- src/unnamed/part_000 (reference) ---------------- *)

\* clz_step without its x <<= add
clz_step_no_shift(s, probe, add) ==
    IF IsZero(ShrW(s.x, probe))
    THEN [n |-> s.n + add, x |-> s.x]
    ELSE s

\* if ((x >> probe) == 0) { n += add; x <<= add; }
clz_step(s, probe, add) ==
    IF IsZero(ShrW(s.x, probe))
    THEN [n |-> s.n + add, x |-> ShlW(s.x, add)]
    ELSE s

clz32(x0) ==
    IF IsZero(x0) THEN 32
    ELSE Let(clz_step([n |-> 0, x |-> x0], 16, 16), LAMBDA s1 :
         Let(clz_step(s1, 24, 8), LAMBDA s2 :
         Let(clz_step(s2, 28, 4), LAMBDA s3 :
         Let(clz_step(s3, 30, 2), LAMBDA s4 :
         IF IsZero(ShrW(s4.x, 31)) THEN s4.n + 1 ELSE s4.n))))

\* mul32_loop with aa declared uint32_t: aa <<= 1 drops bit 31
RECURSIVE mul32_loop_narrow(_, _, _, _)
mul32_loop_narrow(acc, aa, b, iters) ==
    IF IsZero(b) THEN [acc |-> acc, iters |-> iters]
    ELSE Let(<<IF b[1] % 2 = 1 THEN AddW(acc, aa) ELSE acc,
               Ext64(ShlW(Trunc32(aa), 1)), ShrW(b, 1), iters + 1>>,
             LAMBDA n : mul32_loop_narrow(n[1], n[2], n[3], n[4]))

RECURSIVE mul32_loop(_, _, _, _)
mul32_loop(acc, aa, b, iters) ==
    IF IsZero(b) THEN [acc |-> acc, iters |-> iters]
    ELSE Let(<<IF b[1] % 2 = 1 THEN AddW(acc, aa) ELSE acc,
               ShlW(aa, 1), ShrW(b, 1), iters + 1>>,
             LAMBDA n : mul32_loop(n[1], n[2], n[3], n[4]))

\* the product with the number of loop iterations it took
mul32_run(a, b) == mul32_loop(Zero64, Ext64(a), b, 0)

mul32_shift_add(a, b) == mul32_run(a, b).acc

UINT16_MAX == 2^16 - 1

\* static const uint16_t rsqrt_table[32] of the reference build;
\* C index k is element k + 1 here
rsqrt_table_ref ==
    << UINT16_MAX, 46341, 32768, 23170, 16384,
       11585,  8192,  5793,  4096,  2896,
        2048,  1448,  1024,   724,   512,
         362,   256,   181,   128,    90,
          64,    45,    32,    23,    16,
          11,     8,     6,     4,     3,
           2,     1 >>

\* (3u << 16)
Three_Q16 == ShlW(Small32(3), 16)

\* One Newton step of the reference build.  xy2 is the 64-bit value
\* xy2_q16_64 before the cast to uint32_t; ret is the returned value.
q16_newton_run_ref(y, x) ==
    Let(mul32_shift_add(y, y), LAMBDA y2 :
    Let(AddW(ShlW(mul32_shift_add(x, High32(y2)), 16),
             ShrW(AddW(mul32_shift_add(x, Trunc32(y2)),
                       ShlW(Ext64(Small32(1)), 15)), 16)), LAMBDA xy2_q16_64 :
    Let(SubW(Three_Q16, Trunc32(xy2_q16_64)), LAMBDA term :
    Let(mul32_shift_add(y, term), LAMBDA prod :
        [y    |-> y,
         xy2  |-> xy2_q16_64,
         term |-> term,
         ret  |-> Trunc32(ShrW(AddW(prod, ShlW(Ext64(Small32(1)), 16)), 17))]))))

\* uint32_t one_exp = (exp < 31u) ? (1u << exp) : 0u;
\* frac = (uint32_t)((((uint64_t)x - (uint64_t)one_exp) << 16) >> exp)
frac_ref(x, e) ==
    LET one_exp == IF e < 31 THEN ShlW(Small32(1), e) ELSE Zero32
    IN  Trunc32(ShrW(ShlW(SubW(Ext64(x), Ext64(one_exp)), 16), e))

\* interp_ref with the correction added instead of subtracted
interp_ref_added(yb, yn, fr) ==
    Let(SubW(yb, yn), LAMBDA delta :
        AddW(yb, Trunc32(ShrW(mul32_shift_add(delta, fr), 16))))

\* delta = y_base - y_next;  y = y_base - (uint32_t)(mul32_shift_add(delta, frac) >> 16)
interp_ref(yb, yn, fr) ==
    Let(SubW(yb, yn), LAMBDA delta :
        SubW(yb, Trunc32(ShrW(mul32_shift_add(delta, fr), 16))))

(* ------------ src/quiz3_fast_reciprocal_square_root_Optimal.c ---------- *)

\* static const uint16_t rsqrt_table[32] of the optimal build
rsqrt_table_opt ==
    << 65535, 46341, 32768, 23170, 16384,
       11585,  8192,  5793,  4096,  2896,
        2048,  1448,  1024,   724,   512,
         362,   256,   181,   128,    90,
          64,    45,    32,    23,    16,
          11,     8,     6,     4,     3,
           2,     1 >>

\* the table linked into build v
rsqrt_table(v) == IF v = "ref" THEN rsqrt_table_ref ELSE rsqrt_table_opt

\* s.v + addend in 32 bits; ovf remembers a carry out of bit 31 or a set
\* bit dropped by the shift that produced the addend.
Accumulate(s, addend, lost) ==
    [v   |-> AddW(s.v, addend),
     ovf |-> s.ovf \/ lost \/ AddCarry(s.v, addend) = 1]

\* one pass of the nibble loop of mul16x16_32
\* if (nib & bit) p += (a << k);   with bit = 2^k
nib_step(p, a, nib, k) ==
    IF (nib \div 2^k) % 2 = 1
    THEN Accumulate(p, ShlW(a, k), ShlLoses(a, k))
    ELSE p

mul16_step(a, b16, shift, acc) ==
    Let(ShrW(b16, shift)[1] % 16, LAMBDA nib :
    Let(nib_step([v |-> Zero32, ovf |-> acc.ovf], a, nib, 0), LAMBDA p1 :
    Let(nib_step(p1, a, nib, 1), LAMBDA p2 :
    Let(nib_step(p2, a, nib, 2), LAMBDA p4 :
    Let(nib_step(p4, a, nib, 3), LAMBDA p8 :
    Accumulate([v |-> acc.v, ovf |-> p8.ovf],
               ShlW(p8.v, shift), ShlLoses(p8.v, shift)))))))

RECURSIVE mul16_loop(_, _, _, _)
mul16_loop(a, b16, shift, acc) ==
    IF shift < 16
    THEN Let(mul16_step(a, b16, shift, acc),
             LAMBDA s : mul16_loop(a, b16, shift + 4, s))
    ELSE acc

\* the product with the overflow flag of its partial sums
mul16_run(a16, b16) ==
    Let(<<a16[1], 0>>,
        LAMBDA a : mul16_loop(a, b16, 0, [v |-> Zero32, ovf |-> FALSE]))

mul16x16_32(a16, b16) == mul16_run(a16, b16).v

\* One Newton step of the optimal build.  xy2 is the 64-bit acc before the
\* cast to uint32_t; ret is the returned value.
q16_newton_run_opt(y0, x) ==
    Let(<<y0[1], 0>>, LAMBDA y :
    Let(mul16x16_32(y, y), LAMBDA y2 :
    Let([y2_lo |-> <<y2[1], 0>>, y2_hi |-> ShrW(y2, 16),
         x_lo  |-> <<x[1], 0>>,  x_hi  |-> ShrW(x, 16)], LAMBDA h :
    Let(AddW(AddW(AddW(AddW(Zero64,
                 ShlW(Ext64(mul16x16_32(h.x_hi, h.y2_hi)), 16)),
                 Ext64(mul16x16_32(h.x_lo, h.y2_hi))),
                 Ext64(mul16x16_32(h.x_hi, h.y2_lo))),
                 ShrW(Ext64(mul16x16_32(h.x_lo, h.y2_lo)), 16)), LAMBDA acc :
    Let(SubW(Three_Q16, Trunc32(acc)), LAMBDA term :
    Let(ShrW(term, 16), LAMBDA term_hi :
        LET term_lo  == <<term[1], 0>>
            y_mul_hi == IF term_hi = Small32(3) THEN AddW(ShlW(y, 1), y)
                        ELSE IF term_hi = Small32(2) THEN ShlW(y, 1)
                        ELSE IF term_hi = Small32(1) THEN y
                        ELSE Zero32
            t0       == ShrW(y_mul_hi, 1)
            t1       == ShrW(mul16x16_32(y, term_lo), 17)
        IN  [y    |-> y,
             xy2  |-> acc,
             term |-> term,
             ret  |-> AddW(t0, t1)]))))))

\* base = 1u << e; diff = x - base;
\* frac = (e >= 16u) ? (diff >> (e - 16u)) : (diff << (16u - e))
frac_opt(x, e) ==
    LET base == ShlW(Small32(1), e)
        diff == SubW(x, base)
    IN  IF e >= 16 THEN ShrW(diff, e - 16) ELSE ShlW(diff, 16 - e)

\* dy = y0 - y1;  y = y0 - (mul16x16_32(dy, frac) >> 16)
interp_opt(y0, y1, fr) ==
    Let(SubW(y0, y1), LAMBDA dy :
        SubW(y0, ShrW(mul16x16_32(dy, fr), 16)))

\* newton_steps with the reference build's second step dropped
newton_steps_single(v) == 1

\* the number of q16_newton_step calls fast_rsqrt makes in each build
newton_steps(v) == IF v = "ref" THEN 2 ELSE 1

(* ------------------------------ inputs --------------------------------- *)

\* every argument from 0 to MaxSmall is tried
MaxSmall == 20

\* every operand from 0 to MaxOperand is tried by the primitives
MaxOperand == 3

\* 2^k as a 32-bit word, 0 <= k <= 31
Pow2W(k) == ShlW(Small32(1), k)

AllOnes32 == W32(65535, 65535)

\* arguments away from the bucket edges
Probes == {100, 1000, 1563, 1564, 17352, 17353, 524289, 954440817, 954440818}

Inputs ==
    {Small32(n) : n \in 0..MaxSmall}
        \cup {Pow2W(k) : k \in 0..31}
        \cup {SubW(Pow2W(k), Small32(1)) : k \in 1..31}
        \cup {Small32(n) : n \in Probes}
        \cup {AllOnes32}

\* The harness's test vector: its ten values 1, 2, 4, 5, 10, 16, 20, 100,
\* 1000, 0xFFFFFFFF among the other inputs, in the same increasing order.
tests ==
    [k \in 1..Cardinality(Inputs) |->
        CHOOSE a \in Inputs : Cardinality({b \in Inputs : LtW(b, a)}) = k - 1]

Operands ==
    {Small32(n) : n \in 0..MaxOperand}
        \cup {Small32(n) : n \in {15, 16, 255, 4660, 32768, 43690, 65535, 65536}}
        \cup {W32(32768, 0), W32(65535, 0), W32(43690, 43690), AllOnes32}

(* ------------------------------- state --------------------------------- *)

VARIABLES
    variant,   \* "ref" or "opt": the fast_rsqrt linked into the harness
    i,         \* index into tests (1-based)
    pc,        \* where control is
    x,         \* fast_rsqrt's argument
    exp,       \* bucket index
    y_base,    \* rsqrt_table[exp]
    y_next,    \* rsqrt_table[exp + 1] or 1
    frac,      \* interpolation fraction
    y,         \* the running estimate
    steps,     \* Newton steps run in this call
    reads,     \* C indices of rsqrt_table read in this call
    newton,    \* the last Newton step: its y, xy2, term and ret
    rv,        \* fast_rsqrt's return value
    prev,      \* the previous call seen by the harness: x, yq, valid
    p_a, p_b,  \* operands handed to a primitive
    p_pc,      \* which primitive ran
    p_out      \* what it returned

vars == <<variant, i, pc, x, exp, y_base, y_next, frac, y, steps, reads,
          newton, rv, prev, p_a, p_b, p_pc, p_out>>

call_vars == <<variant, i, pc, x, exp, y_base, y_next, frac, y, steps, reads,
               newton, rv, prev>>

prim_vars == <<p_a, p_b, p_pc, p_out>>

NoNewton == [y |-> Zero32, xy2 |-> Zero64, term |-> Zero32, ret |-> Zero32]

NoOut == [acc |-> Zero64, iters |-> 0, ovf |-> FALSE]

Idle ==
    /\ i = 1
    /\ pc = "harness"
    /\ x = Zero32
    /\ exp = 0
    /\ y_base = Zero32
    /\ y_next = Zero32
    /\ frac = Zero32
    /\ y = Zero32
    /\ steps = 0
    /\ reads = {}
    /\ newton = NoNewton
    /\ rv = Zero32
    /\ prev = [x |-> Zero32, yq |-> Zero32, valid |-> FALSE]

InitPrim ==
    /\ p_a = Zero32
    /\ p_b = Zero32
    /\ p_pc = "ready"
    /\ p_out = NoOut

Init == variant \in {"ref", "opt"} /\ Idle /\ InitPrim

(* --------------------- test_Fast_rsqrt and fast_rsqrt ------------------ *)

\* uint32_t x = tests[i]; uint32_t yq = fast_rsqrt(x);
Call ==
    /\ pc = "harness"
    /\ i <= Len(tests)
    /\ x' = tests[i]
    /\ pc' = "entry"
    /\ exp' = 0
    /\ y_base' = Zero32
    /\ y_next' = Zero32
    /\ frac' = Zero32
    /\ y' = Zero32
    /\ steps' = 0
    /\ reads' = {}
    /\ newton' = NoNewton
    /\ rv' = Zero32
    /\ UNCHANGED <<variant, i, prev>>
    /\ UNCHANGED prim_vars

\* ReturnZero saturating instead: if (x == 0u) return UINT32_MAX;
ReturnZero_saturating ==
    /\ pc = "entry"
    /\ IsZero(x)
    /\ rv' = AllOnes32
    /\ pc' = "returned"
    /\ UNCHANGED <<variant, i, x, exp, y_base, y_next, frac, y, steps, reads,
                   newton, prev>>
    /\ UNCHANGED prim_vars

\* if (x == 0u) return 0u;
ReturnZero ==
    /\ pc = "entry"
    /\ IsZero(x)
    /\ rv' = Zero32
    /\ pc' = "returned"
    /\ UNCHANGED <<variant, i, x, exp, y_base, y_next, frac, y, steps, reads,
                   newton, prev>>
    /\ UNCHANGED prim_vars

\* exp = 31u - clz32(x); y_base = rsqrt_table[exp];
\* y_next = (exp < 31u) ? rsqrt_table[exp + 1u] : 1u;
Locate ==
    /\ pc = "entry"
    /\ ~IsZero(x)
    /\ LET e == 31 - clz32(x)
       IN  /\ exp' = e
           /\ y_base' = Small32(rsqrt_table(variant)[e + 1])
           /\ y_next' = IF e < 31 THEN Small32(rsqrt_table(variant)[e + 2])
                                  ELSE Small32(1)
           /\ reads' = IF e < 31 THEN {e, e + 1} ELSE {e}
    /\ pc' = "interp"
    /\ UNCHANGED <<variant, i, x, frac, y, steps, newton, rv, prev>>
    /\ UNCHANGED prim_vars

InterpolateRef ==
    /\ pc = "interp"
    /\ variant = "ref"
    /\ frac' = frac_ref(x, exp)
    /\ y' = interp_ref(y_base, y_next, frac')
    /\ pc' = "newton"
    /\ UNCHANGED <<variant, i, x, exp, y_base, y_next, steps, reads, newton,
                   rv, prev>>
    /\ UNCHANGED prim_vars

InterpolateOpt ==
    /\ pc = "interp"
    /\ variant = "opt"
    /\ frac' = frac_opt(x, exp)
    /\ y' = interp_opt(y_base, y_next, frac')
    /\ pc' = "newton"
    /\ UNCHANGED <<variant, i, x, exp, y_base, y_next, steps, reads, newton,
                   rv, prev>>
    /\ UNCHANGED prim_vars

\* y = q16_newton_step(y, x);
NewtonRef ==
    /\ pc = "newton"
    /\ variant = "ref"
    /\ steps < newton_steps(variant)
    /\ newton' = q16_newton_run_ref(y, x)
    /\ y' = newton'.ret
    /\ steps' = steps + 1
    /\ UNCHANGED <<variant, i, pc, x, exp, y_base, y_next, frac, reads, rv, prev>>
    /\ UNCHANGED prim_vars

NewtonOpt ==
    /\ pc = "newton"
    /\ variant = "opt"
    /\ steps < newton_steps(variant)
    /\ newton' = q16_newton_run_opt(y, x)
    /\ y' = newton'.ret
    /\ steps' = steps + 1
    /\ UNCHANGED <<variant, i, pc, x, exp, y_base, y_next, frac, reads, rv, prev>>
    /\ UNCHANGED prim_vars

\* return y;
Return ==
    /\ pc = "newton"
    /\ steps = newton_steps(variant)
    /\ rv' = y
    /\ pc' = "returned"
    /\ UNCHANGED <<variant, i, x, exp, y_base, y_next, frac, y, steps, reads,
                   newton, prev>>
    /\ UNCHANGED prim_vars

\* the harness prints x and yq and moves to the next test
Report ==
    /\ pc = "returned"
    /\ prev' = [x |-> x, yq |-> rv, valid |-> TRUE]
    /\ i' = i + 1
    /\ pc' = "harness"
    /\ UNCHANGED <<variant, x, exp, y_base, y_next, frac, y, steps, reads,
                   newton, rv>>
    /\ UNCHANGED prim_vars

Next ==
    \/ Call
    \/ ReturnZero
    \/ Locate
    \/ InterpolateRef
    \/ InterpolateOpt
    \/ NewtonRef
    \/ NewtonOpt
    \/ Return
    \/ Report

Spec == Init /\ [][Next]_vars

(* ------------------- the primitives on their own ----------------------- *)

InitOperands ==
    /\ variant = "ref"
    /\ Idle
    /\ p_a \in Operands
    /\ p_b \in Operands
    /\ p_pc = "ready"
    /\ p_out = NoOut

\* mul32_shift_add(p_a, p_b)
RunMul32 ==
    /\ p_pc = "ready"
    /\ LET r == mul32_run(p_a, p_b)
       IN  p_out' = [acc |-> r.acc, iters |-> r.iters, ovf |-> FALSE]
    /\ p_pc' = "mul32"
    /\ UNCHANGED <<p_a, p_b>>
    /\ UNCHANGED call_vars

\* mul16x16_32(p_a, p_b)
RunMul16 ==
    /\ p_pc = "ready"
    /\ LET r == mul16_run(p_a, p_b)
       IN  p_out' = [acc |-> Ext64(r.v), iters |-> 4, ovf |-> r.ovf]
    /\ p_pc' = "mul16"
    /\ UNCHANGED <<p_a, p_b>>
    /\ UNCHANGED call_vars

NextPrim ==
    \/ RunMul32
    \/ RunMul16

SpecPrim == InitOperands /\ [][NextPrim]_vars

(* --------------- exact arithmetic for stating the properties ----------- *)
(* A natural number is a little-endian limb sequence of any length.  The   *)
(* product is the schoolbook one, limb by limb through 8-bit halves, and   *)
(* shares nothing with the multipliers of the program.                     *)

LimbMulLow(a, b) ==
    LET cross == (a \div 256) * (b % 256) + (a % 256) * (b \div 256)
    IN  ((a % 256) * (b % 256) + (cross % 256) * 256) % LimbBase

LimbMulHigh(a, b) ==
    LET cross == (a \div 256) * (b % 256) + (a % 256) * (b \div 256)
    IN  (a \div 256) * (b \div 256) + (cross \div 256)
        + (((a % 256) * (b % 256) + (cross % 256) * 256) \div LimbBase)

RECURSIVE ColumnFrom(_, _, _, _)
ColumnFrom(a, b, k, j) ==
    IF j > Len(a) THEN 0
    ELSE LimbMulLow(a[j], Limb(b, k + 1 - j)) + LimbMulHigh(a[j], Limb(b, k - j))
         + ColumnFrom(a, b, k, j + 1)

RECURSIVE MulFrom(_, _, _, _)
MulFrom(a, b, k, c) ==
    IF k > Len(a) + Len(b) THEN <<>>
    ELSE Let(ColumnFrom(a, b, k, 1) + c,
             LAMBDA t : <<t % LimbBase>> \o MulFrom(a, b, k + 1, t \div LimbBase))

\* a * b exactly, Len(a) + Len(b) limbs
NatMul(a, b) == MulFrom(a, b, 1, 0)

Max(m, n) == IF m >= n THEN m ELSE n

RECURSIVE NatLessFrom(_, _, _)
NatLessFrom(a, b, j) ==
    IF j = 0 THEN FALSE
    ELSE IF Limb(a, j) # Limb(b, j) THEN Limb(a, j) < Limb(b, j)
    ELSE NatLessFrom(a, b, j - 1)

NatLt(a, b) == NatLessFrom(a, b, Max(Len(a), Len(b)))

NatLe(a, b) == ~NatLt(b, a)

NatEq(a, b) == ~NatLt(a, b) /\ ~NatLt(b, a)

\* a with one more (zero) top limb, so that a sum cannot wrap
Widen(a) == a \o <<0>>

\* 2^32 and 2^34
Two32 == <<0, 0, 1>>

Two34 == <<0, 0, 4>>

InCall == pc \in {"interp", "newton", "returned"} /\ ~IsZero(x)

(* ------------------------------ properties ----------------------------- *)

\* C4: fast_rsqrt(0) returns 0 in both builds as an ordinary return, having
\* read no table entry and run no Newton step.
C4_ZeroReturnsZero ==
    (pc = "returned" /\ IsZero(x)) =>
        /\ rv = Zero32
        /\ reads = {}
        /\ steps = 0
        /\ newton = NoNewton

C4_Witness == pc = "returned" /\ IsZero(x) /\ variant = "opt" /\ rv = Zero32

\* C5: mul32_shift_add returns the exact 64-bit product of any two 32-bit
\* operands, and 0 without a loop iteration when b = 0; mul16x16_32 returns
\* the exact product of two operands below 2^16 and no partial sum of it
\* overflows 32 bits.
C5_MultipliesExact ==
    /\ p_pc = "mul32" =>
          /\ p_out.acc = NatMul(p_a, p_b)
          /\ IsZero(p_b) => (p_out.iters = 0 /\ p_out.acc = Zero64)
    /\ (p_pc = "mul16" /\ p_a[2] = 0 /\ p_b[2] = 0) =>
          /\ p_out.acc = NatMul(p_a, p_b)
          /\ ~p_out.ovf

C5_Witness ==
    /\ p_pc = "mul16"
    /\ p_a = Small32(65535)
    /\ p_b = Small32(65535)
    /\ p_out.acc = <<1, 65534, 0, 0>>

\* C6: clz32(0) = 32; for x > 0, exp = 31 - clz32(x) is the index of the
\* highest set bit, every table read uses an index in 0..31, and index
\* exp + 1 is read only when exp < 31 (for exp = 31 y_next is the constant 1).
C6_RangeLocator ==
    /\ clz32(Zero32) = 32
    /\ InCall =>
          /\ exp \in 0..31
          /\ LeW(Pow2W(exp), x)
          /\ exp < 31 => LtW(x, Pow2W(exp + 1))
          /\ reads \subseteq 0..31
          /\ exp \in reads
          /\ (exp + 1) \in reads => exp < 31
          /\ exp = 31 => (reads = {31} /\ y_next = Small32(1))

C6_Witness == InCall /\ exp = 31 /\ x = Pow2W(31) /\ reads = {31}

\* C1: monotonicity.  The harness walks its inputs in increasing order, so
\* for consecutive a < b with a > 0 the claim is fast_rsqrt(a) >= fast_rsqrt(b),
\* in either build.
C1_Monotone ==
    (pc = "returned" /\ prev.valid /\ ~IsZero(prev.x) /\ LtW(prev.x, x)) =>
        LeW(rv, prev.yq)

\* 1000^2 * x * y^2 as an exact natural
RelMiddle(xx, yy) == NatMul(Small32(1000000), NatMul(xx, NatMul(yy, yy)))

\* 999^2 * 2^32 <= 1000^2 * x * y^2 <= 1001^2 * 2^32
WithinTenthPercent(xx, yy) ==
    /\ NatLe(NatMul(Small32(998001), Two32), RelMiddle(xx, yy))
    /\ NatLe(RelMiddle(xx, yy), NatMul(Small32(1002001), Two32))

\* |y - 2^16/sqrt(x)| <= d, i.e. (y - d)^2 * x <= 2^32 <= (y + d)^2 * x
WithinUnits(xx, yy, d) ==
    LET lo == IF LtW(yy, Small32(d)) THEN Zero32 ELSE SubW(yy, Small32(d))
        hi == AddW(yy, Small32(d))
    IN  /\ NatLe(NatMul(xx, NatMul(lo, lo)), Two32)
        /\ NatLe(Two32, NatMul(xx, NatMul(hi, hi)))

RefReturned == pc = "returned" /\ variant = "ref" /\ ~IsZero(x)

\* C2 as claimed: for every x > 0 the reference build's result is within
\* 0.1% of 2^16/sqrt(x).
C2_TenthPercentEverywhere == RefReturned => WithinTenthPercent(x, rv)

\* C2 as amended: for 0 < x <= 2^14 the reference build's result is within
\* 0.1% of 2^16/sqrt(x), and for every x > 0 it is within 2 units of the
\* last place (2 / 2^16) of 2^16/sqrt(x).
C2_TenthPercentSmallX ==
    RefReturned =>
        /\ LeW(x, Pow2W(14)) => WithinTenthPercent(x, rv)
        /\ WithinUnits(x, rv, 2)

C2_Witness ==
    /\ RefReturned
    /\ x = Small32(1000)
    /\ rv = Small32(2072)
    /\ WithinTenthPercent(x, rv)

\* C3: fast_rsqrt(1) returns 65536 in both builds.
C3_OneIsExact ==
    (pc = "returned" /\ x = Small32(1)) => rv = W32(1, 0)

\* ((x - 2^exp) * 2^16) div 2^exp, exactly (below 2^48)
ExactFrac(xx, e) == ShrW(ShlW(SubW(Ext64(xx), Ext64(Pow2W(e))), 16), e)

\* C7: for every x > 0, in both builds, frac = ((x - 2^exp) * 2^16) div 2^exp
\* and 0 <= frac < 2^16, the top bucket exp = 31 included.
C7_FracInRange ==
    (pc \in {"newton", "returned"} /\ ~IsZero(x)) =>
        /\ Ext64(frac) = ExactFrac(x, exp)
        /\ frac[2] = 0

\* floor((y * term + 2^16) / 2^17), exactly (y * term is below 2^49)
RoundedShift17(yy, term) ==
    Trunc32(ShrW(AddW(NatMul(yy, term), <<0, 1, 0, 0>>), 17))

\* C8: in both builds every Newton step returns (y * term) >> 17 rounded to
\* nearest, floor((y * term + 2^16) / 2^17).
C8_RoundedToNearest ==
    steps >= 1 => newton.ret = RoundedShift17(newton.y, newton.term)

\* (x * y^2 + r) div 2^16 exactly, r = 2^15 in the reference build (which
\* rounds the low part) and 0 in the optimal build; seven limbs
ExactXY2(xx, yy, r) ==
    Tail(AddW(Widen(NatMul(xx, NatMul(yy, yy))), <<r, 0, 0, 0, 0, 0, 0>>))

\* C9: in every Newton step of either build the Q16 product (x * y^2) >> 16 is
\* computed without loss, fits in 32 bits and is at most 3 << 16, so that
\* term = (3 << 16) - xy2_q16 does not wrap and term >> 16 is in 0..3.
C9_TermDoesNotWrap ==
    steps >= 1 =>
        /\ NatEq(newton.xy2,
                 ExactXY2(x, newton.y, IF variant = "ref" THEN 2^15 ELSE 0))
        /\ High32(newton.xy2) = Zero32
        /\ LeW(Trunc32(newton.xy2), Three_Q16)
        /\ SubBorrow(Three_Q16, Trunc32(newton.xy2)) = 0
        /\ newton.term[2] \in 0..3

C9_Witness ==
    /\ steps = 2
    /\ variant = "ref"
    /\ x = AllOnes32
    /\ High32(newton.xy2) = Zero32
    /\ newton.term[2] \in 0..3

\* (2t - 1)^2 * 2^k <= 2^34 < (2t + 1)^2 * 2^k : t is the integer nearest to
\* 2^16 / sqrt(2^k)
NearestEntry(t, k) ==
    /\ NatLe(NatMul(NatMul(Small32(2 * t - 1), Small32(2 * t - 1)), Pow2W(k)), Two34)
    /\ NatLt(Two34, NatMul(NatMul(Small32(2 * t + 1), Small32(2 * t + 1)), Pow2W(k)))

\* C10: the table has 32 strictly decreasing entries, entry k is
\* round(2^16 / sqrt(2^k)) for every k in 0..31, the two builds carry the
\* same table and no operation changes it.
C10_TableIsRounded ==
    /\ Len(rsqrt_table(variant)) = 32
    /\ rsqrt_table_ref = rsqrt_table_opt
    /\ \A k \in 0..30 : rsqrt_table(variant)[k + 1] > rsqrt_table(variant)[k + 2]
    /\ \A k \in 0..31 : NearestEntry(rsqrt_table(variant)[k + 1], k)

====
